---- MODULE Spec2Model ----
(***************************************************************************)
(* Model of deployments.Fetcher (src/deployments/deployments_fetcher.go). *)
(*                                                                         *)
(* Fetcher.Deployments() lists the deployments, starts one goroutine per  *)
(* deployment that runs fetchDeploymentInfo (four remote calls in a row)   *)
(* and either appends its DeploymentInfo to the shared slice under a       *)
(* mutex or sends its error on errChannel (capacity 1), starts one more    *)
(* goroutine that waits on the WaitGroup and closes doneChannel, and then  *)
(* selects on doneChannel and errChannel.                                  *)
(*                                                                         *)
(* Every statement that touches shared state (channel, mutex, WaitGroup,   *)
(* slice) or performs a remote call is one action.  The outcome of a       *)
(* remote call (success, failure, never returning) is an input, drawn when *)
(* the call is made.                                                       *)
(***************************************************************************)
EXTENDS Integers, Sequences, FiniteSets, TLC

\* Largest number of deployments GetDeployments may return.
MaxDeployments == 3

\* Longest payload deployment.InstanceInfos() may return.
MaxInstances == 3

\* Largest instance index in a payload.
MaxIndex == 10

\* Capacity of errChannel: make(chan error, 1).
ErrChannelCap == 1

Deployments == 1..MaxDeployments

\* The four remote calls of fetchDeploymentInfo, in program order.
FacetOrder == <<"Errands", "Instances", "Releases", "Stemcells">>

NumFacets == Len(FacetOrder)

Facets == {FacetOrder[k] : k \in 1..NumFacets}

\* error values.  NoErr is Go's nil error.
NoErr == [kind |-> "nil", dep |-> 0, facet |-> ""]

\* The error GetDeployments returns when the listing fails.
ListErr == [kind |-> "list", dep |-> 0, facet |-> ""]

\* Faulty variant: every message names the first facet (a copied message).
FacetErrorWrongFacet(d, k) == [kind |-> "facet", dep |-> d, facet |-> FacetOrder[1]]

\* "Error while reading <facet> for deployment `<name>`: ..."
FacetError(d, k) == [kind |-> "facet", dep |-> d, facet |-> FacetOrder[k]]

\* A DeploymentInfo: the name and the facets assigned so far.
DeploymentInfo(d, fs) == [name |-> d, facets |-> fs]

\* An element of the returned slice that is not a DeploymentInfo any
\* goroutine wrote: the length word of the header counts it, the array the
\* pointer word designates does not hold it.
TornInfo == [name |-> 0, facets |-> {}]

VARIABLES
    collectPc,        \* position of Deployments(): line about to execute
    deployments,      \* number of handles GetDeployments returned
    listErr,          \* err returned by GetDeployments (line 28)
    spawned,          \* loop index: deployments 1..spawned have a goroutine
    pc,               \* pc[d]: position of deployment d's goroutine
    facetIdx,         \* facetIdx[d]: index in FacetOrder of the next call
    deploymentInfo,   \* deploymentInfo[d]: facets set in the task's local value
    taskErr,          \* taskErr[d]: err returned by fetchDeploymentInfo
    calls,            \* calls[d]: the remote calls issued, with outcomes
    deploymentsInfo,  \* the shared slice
    mutex,            \* 0 when free, else the deployment holding it
    wg,               \* WaitGroup counter
    waiterPc,         \* position of the goroutine of lines 51-54
    doneChannel,      \* TRUE once closed
    errChannel,       \* buffered values of errChannel
    firstErr,         \* first value ever sent on errChannel (history)
    retInfo,          \* returned []DeploymentInfo
    retErr,           \* err of line 58, the returned error
    headerPtr,        \* line 59: elements in the array when the pointer word was loaded
    cycle,            \* which call of Deployments() this is: 1 or 2
    firstResult,      \* what the first call returned (history)
    instPc,           \* position of fetchDeploymentInstances
    instances,        \* instances: what deployment.InstanceInfos() returned
    instIdx,          \* index of the loop of line 125 into instances
    deploymentInstances  \* deploymentInstances: the []Instance being built

vars == <<collectPc, deployments, listErr, spawned, pc, facetIdx, deploymentInfo,
          taskErr, calls, deploymentsInfo, mutex, wg, waiterPc, doneChannel,
          errChannel, firstErr, retInfo, retErr, headerPtr, cycle,
          firstResult, instPc, instances, instIdx, deploymentInstances>>

taskVars == <<pc, facetIdx, deploymentInfo, taskErr, calls>>

collectVars == <<collectPc, deployments, listErr, spawned, retInfo, retErr,
                 headerPtr>>

callerVars == <<cycle, firstResult>>

instanceVars == <<instPc, instances, instIdx, deploymentInstances>>

deploymentsVars == <<collectVars, taskVars, callerVars, deploymentsInfo, mutex,
                     wg, waiterPc, doneChannel, errChannel, firstErr>>

----------------------------------------------------------------------------
\* Channel, WaitGroup and slice primitives.

\* Faulty variant: a send that never blocks.
CanSendAlways(ch) == TRUE

\* A send on a buffered channel proceeds only while the buffer has room.
CanSend(ch) == Len(ch) < ErrChannelCap

\* The buffer after a send.
ChanSend(ch, e) == Append(ch, e)

\* Faulty variant: the select without its errChannel case.
ErrReadyNever(ch) == FALSE

\* case err := <-errChannel is ready when a value is buffered.
ErrReady(ch) == Len(ch) > 0

\* Faulty variant: the select does not wait for the close (a default case).
DoneReadyAlways(closed) == TRUE

\* Faulty variant: the select without its doneChannel case.
DoneReadyNever(closed) == FALSE

\* case <-doneChannel is ready once the channel is closed.
DoneReady(closed) == closed

\* Faulty variant: wg.Wait() that does not wait (a missing wg.Add).
WgZeroAlways(w) == TRUE

\* wg.Wait() returns when the counter is zero.
WgZero(w) == w = 0

\* Faulty variant: the append starts from a fresh slice, losing elements.
AppendInfoLost(s, x) == IF Len(s) > 0 THEN <<x>> ELSE Append(s, x)

\* deploymentsInfo = append(deploymentsInfo, *deploymentInfo)
AppendInfo(s, x) == Append(s, x)

\* Capacity append gives a slice grown one element at a time from the empty
\* literal of line 24: a full array is replaced by one of twice the size.
RECURSIVE GrowCap(_, _)
GrowCap(c, n) == IF c >= n THEN c ELSE GrowCap(IF c = 0 THEN 1 ELSE 2 * c, n)

\* Capacity of the array deploymentsInfo points to when it has n elements.
SliceCap(n) == GrowCap(0, n)

\* Values element k of the returned slice can have, when the pointer word
\* was loaded with p elements appended: an element the array held then is
\* there; one appended later is there only if it was written in place, and
\* the caller may look before the write; past the array's capacity there is
\* no element.
HeaderElement(p, k) ==
    IF k <= p THEN {deploymentsInfo[k]}
    ELSE IF k <= SliceCap(p) THEN {deploymentsInfo[k], TornInfo}
    ELSE {TornInfo}

\* The slices of n elements the header can designate.
RECURSIVE HeaderSlices(_, _)
HeaderSlices(p, n) ==
    IF n = 0 THEN {<<>>}
    ELSE {Append(r, x) : r \in HeaderSlices(p, n - 1), x \in HeaderElement(p, n)}

\* Values the unsynchronised read of deploymentsInfo at line 59 yields. The
\* header is three words loaded one by one, and the appends of line 46 are
\* ordered with each other by the mutex but not with these loads: the
\* pointer word is the one loaded at headerPtr elements, the length word is
\* loaded now. (Length loaded first gives a prefix of the slice, which is
\* the value of both words loaded before the appends in between.)
ReadDeploymentsInfo == HeaderSlices(headerPtr, Len(deploymentsInfo))

----------------------------------------------------------------------------
\* Deployments() has not run yet.
InitDeployments ==
    /\ collectPc = "getDeployments"
    /\ deployments = 0
    /\ listErr = NoErr
    /\ spawned = 0
    /\ pc = [d \in Deployments |-> "notspawned"]
    /\ facetIdx = [d \in Deployments |-> 1]
    /\ deploymentInfo = [d \in Deployments |-> {}]
    /\ taskErr = [d \in Deployments |-> NoErr]
    /\ calls = [d \in Deployments |-> <<>>]
    /\ deploymentsInfo = <<>>
    /\ mutex = 0
    /\ wg = 0
    /\ waiterPc = "notspawned"
    /\ doneChannel = FALSE
    /\ errChannel = <<>>
    /\ firstErr = NoErr
    /\ retInfo = <<>>
    /\ retErr = NoErr
    /\ headerPtr = 0
    /\ cycle = 1
    /\ firstResult = [snapshots |-> {}, count |-> 0]

\* fetchDeploymentInstances taken on its own is not running.
InitInstancesIdle ==
    /\ instPc = "idle"
    /\ instances = <<>>
    /\ instIdx = 1
    /\ deploymentInstances = <<>>

Init == InitDeployments /\ InitInstancesIdle

----------------------------------------------------------------------------
\* Deployments(), lines 23-63.

\* Faulty variant: the listing fails and the function does not return.
GetDeploymentsFailContinue ==
    /\ collectPc = "getDeployments"
    /\ listErr' = ListErr
    /\ \E n \in 0..MaxDeployments : deployments' = n
    /\ collectPc' = "loop"
    /\ UNCHANGED <<callerVars, instanceVars>>
    /\ UNCHANGED <<spawned, retInfo, retErr, headerPtr, taskVars, deploymentsInfo, mutex,
                   wg, waiterPc, doneChannel, errChannel, firstErr>>

\* Lines 28-31, listing fails: return deploymentsInfo, err.
GetDeploymentsFail ==
    /\ collectPc = "getDeployments"
    /\ listErr' = ListErr
    /\ collectPc' = "returned"
    /\ retInfo' = deploymentsInfo
    /\ retErr' = ListErr
    /\ UNCHANGED <<callerVars, instanceVars>>
    /\ UNCHANGED <<deployments, spawned, headerPtr, taskVars, deploymentsInfo,
                   mutex, wg, waiterPc, doneChannel, errChannel, firstErr>>

\* Lines 28-34, listing succeeds with n handles.
GetDeploymentsOk ==
    /\ collectPc = "getDeployments"
    /\ \E n \in 0..MaxDeployments : deployments' = n
    /\ collectPc' = "loop"
    /\ UNCHANGED <<callerVars, instanceVars>>
    /\ UNCHANGED <<listErr, spawned, retInfo, retErr, headerPtr, taskVars, deploymentsInfo,
                   mutex, wg, waiterPc, doneChannel, errChannel, firstErr>>

\* Faulty variant: the goroutine is started without wg.Add(1).
SpawnTaskNoAdd ==
    /\ collectPc = "loop"
    /\ spawned < deployments
    /\ spawned' = spawned + 1
    /\ pc' = [pc EXCEPT ![spawned + 1] = "call"]
    /\ UNCHANGED <<callerVars, instanceVars>>
    /\ UNCHANGED <<collectPc, deployments, listErr, retInfo, retErr, headerPtr, facetIdx,
                   deploymentInfo, taskErr, calls, deploymentsInfo, mutex, wg,
                   waiterPc, doneChannel, errChannel, firstErr>>

\* Lines 35-37, one iteration: wg.Add(1); go func(deployment).
SpawnTask ==
    /\ collectPc = "loop"
    /\ spawned < deployments
    /\ spawned' = spawned + 1
    /\ wg' = wg + 1
    /\ pc' = [pc EXCEPT ![spawned + 1] = "call"]
    /\ UNCHANGED <<callerVars, instanceVars>>
    /\ UNCHANGED <<collectPc, deployments, listErr, retInfo, retErr, headerPtr, facetIdx,
                   deploymentInfo, taskErr, calls, deploymentsInfo, mutex,
                   waiterPc, doneChannel, errChannel, firstErr>>

\* Lines 51-54: go func() { wg.Wait(); close(doneChannel) }().
SpawnWaiter ==
    /\ collectPc = "loop"
    /\ spawned = deployments
    /\ waiterPc' = "wait"
    /\ collectPc' = "select"
    /\ UNCHANGED <<callerVars, instanceVars>>
    /\ UNCHANGED <<deployments, listErr, spawned, retInfo, retErr, headerPtr, taskVars,
                   deploymentsInfo, mutex, wg, doneChannel, errChannel, firstErr>>

\* Lines 56-57 and 62: case <-doneChannel, then return deploymentsInfo, nil.
SelectDone ==
    /\ collectPc = "select"
    /\ DoneReady(doneChannel)
    /\ collectPc' = "returned"
    /\ retInfo' = deploymentsInfo
    /\ retErr' = NoErr
    /\ UNCHANGED <<callerVars, instanceVars>>
    /\ UNCHANGED <<deployments, listErr, spawned, headerPtr, taskVars,
                   deploymentsInfo, mutex, wg, waiterPc, doneChannel, errChannel,
                   firstErr>>

\* Lines 58-59: case err := <-errChannel receives the error, and the return
\* statement starts to read deploymentsInfo: the pointer word of its header.
SelectErr ==
    /\ collectPc = "select"
    /\ ErrReady(errChannel)
    /\ collectPc' = "return"
    /\ retErr' = Head(errChannel)
    /\ errChannel' = Tail(errChannel)
    /\ headerPtr' = Len(deploymentsInfo)
    /\ UNCHANGED <<callerVars, instanceVars>>
    /\ UNCHANGED <<deployments, listErr, spawned, retInfo, taskVars,
                   deploymentsInfo, mutex, wg, waiterPc, doneChannel, firstErr>>

\* Line 59, return deploymentsInfo, err: the length word is loaded and the
\* function returns. Goroutines may have appended since SelectErr.
ReturnErr ==
    /\ collectPc = "return"
    /\ collectPc' = "returned"
    /\ \E r \in ReadDeploymentsInfo : retInfo' = r
    /\ UNCHANGED <<callerVars, instanceVars>>
    /\ UNCHANGED <<deployments, listErr, spawned, retErr, headerPtr, taskVars,
                   deploymentsInfo, mutex, wg, waiterPc, doneChannel, errChannel,
                   firstErr>>

----------------------------------------------------------------------------
\* The goroutine of lines 37-48 for deployment d, with fetchDeploymentInfo
\* (lines 65-95) and the four fetchDeployment<Facet> functions inlined.

\* The remote call of facet facetIdx[d] returns a value: the facet is
\* mapped and assigned; after the last one fetchDeploymentInfo returns nil.
CallOk(d) ==
    /\ pc[d] = "call"
    /\ calls' = [calls EXCEPT ![d] = Append(@, <<FacetOrder[facetIdx[d]], "ok">>)]
    /\ deploymentInfo' = [deploymentInfo EXCEPT ![d] = @ \cup {FacetOrder[facetIdx[d]]}]
    /\ IF facetIdx[d] < NumFacets
          THEN /\ facetIdx' = [facetIdx EXCEPT ![d] = @ + 1]
               /\ pc' = pc
          ELSE /\ facetIdx' = facetIdx
               /\ pc' = [pc EXCEPT ![d] = "lock"]
    /\ UNCHANGED <<callerVars, instanceVars>>
    /\ UNCHANGED <<taskErr, collectVars, deploymentsInfo, mutex, wg, waiterPc,
                   doneChannel, errChannel, firstErr>>

\* Faulty variant: the error is kept but fetchDeploymentInfo goes on to the
\* next facet (a missing return).
CallFailContinue(d) ==
    /\ pc[d] = "call"
    /\ calls' = [calls EXCEPT ![d] = Append(@, <<FacetOrder[facetIdx[d]], "fail">>)]
    /\ taskErr' = [taskErr EXCEPT ![d] = FacetError(d, facetIdx[d])]
    /\ IF facetIdx[d] < NumFacets
          THEN /\ facetIdx' = [facetIdx EXCEPT ![d] = @ + 1]
               /\ pc' = pc
          ELSE /\ facetIdx' = facetIdx
               /\ pc' = [pc EXCEPT ![d] = "send"]
    /\ UNCHANGED <<callerVars, instanceVars>>
    /\ UNCHANGED <<deploymentInfo, collectVars, deploymentsInfo,
                   mutex, wg, waiterPc, doneChannel, errChannel, firstErr>>

\* The remote call returns an error: fetchDeployment<Facet> wraps it and
\* fetchDeploymentInfo returns it at once (lines 71-72, 77-78, 83-84, 89-90).
CallFail(d) ==
    /\ pc[d] = "call"
    /\ calls' = [calls EXCEPT ![d] = Append(@, <<FacetOrder[facetIdx[d]], "fail">>)]
    /\ taskErr' = [taskErr EXCEPT ![d] = FacetError(d, facetIdx[d])]
    /\ pc' = [pc EXCEPT ![d] = "send"]
    /\ UNCHANGED <<callerVars, instanceVars>>
    /\ UNCHANGED <<facetIdx, deploymentInfo, collectVars, deploymentsInfo,
                   mutex, wg, waiterPc, doneChannel, errChannel, firstErr>>

\* The remote call never returns.
CallHang(d) ==
    /\ pc[d] = "call"
    /\ calls' = [calls EXCEPT ![d] = Append(@, <<FacetOrder[facetIdx[d]], "hang">>)]
    /\ pc' = [pc EXCEPT ![d] = "hung"]
    /\ UNCHANGED <<callerVars, instanceVars>>
    /\ UNCHANGED <<facetIdx, deploymentInfo, taskErr, collectVars,
                   deploymentsInfo, mutex, wg, waiterPc, doneChannel,
                   errChannel, firstErr>>

\* Lines 40-42: errChannel <- err; return.
SendErr(d) ==
    /\ pc[d] = "send"
    /\ CanSend(errChannel)
    /\ errChannel' = ChanSend(errChannel, taskErr[d])
    /\ firstErr' = IF firstErr = NoErr THEN taskErr[d] ELSE firstErr
    /\ pc' = [pc EXCEPT ![d] = "wgDone"]
    /\ UNCHANGED <<callerVars, instanceVars>>
    /\ UNCHANGED <<facetIdx, deploymentInfo, taskErr, calls, collectVars,
                   deploymentsInfo, mutex, wg, waiterPc, doneChannel>>

\* Faulty variant: the lock is taken without waiting for its holder.
LockNoWait(d) ==
    /\ pc[d] = "lock"
    /\ mutex' = d
    /\ pc' = [pc EXCEPT ![d] = "append"]
    /\ UNCHANGED <<callerVars, instanceVars>>
    /\ UNCHANGED <<facetIdx, deploymentInfo, taskErr, calls, collectVars,
                   deploymentsInfo, wg, waiterPc, doneChannel, errChannel,
                   firstErr>>

\* Line 45: mutex.Lock().
Lock(d) ==
    /\ pc[d] = "lock"
    /\ mutex = 0
    /\ mutex' = d
    /\ pc' = [pc EXCEPT ![d] = "append"]
    /\ UNCHANGED <<callerVars, instanceVars>>
    /\ UNCHANGED <<facetIdx, deploymentInfo, taskErr, calls, collectVars,
                   deploymentsInfo, wg, waiterPc, doneChannel, errChannel,
                   firstErr>>

\* Line 46: deploymentsInfo = append(deploymentsInfo, *deploymentInfo).
AppendResult(d) ==
    /\ pc[d] = "append"
    /\ deploymentsInfo' = AppendInfo(deploymentsInfo, DeploymentInfo(d, deploymentInfo[d]))
    /\ pc' = [pc EXCEPT ![d] = "unlock"]
    /\ UNCHANGED <<callerVars, instanceVars>>
    /\ UNCHANGED <<facetIdx, deploymentInfo, taskErr, calls, collectVars,
                   mutex, wg, waiterPc, doneChannel, errChannel, firstErr>>

\* Line 47: mutex.Unlock().
Unlock(d) ==
    /\ pc[d] = "unlock"
    /\ mutex' = 0
    /\ pc' = [pc EXCEPT ![d] = "wgDone"]
    /\ UNCHANGED <<callerVars, instanceVars>>
    /\ UNCHANGED <<facetIdx, deploymentInfo, taskErr, calls, collectVars,
                   deploymentsInfo, wg, waiterPc, doneChannel, errChannel,
                   firstErr>>

\* Faulty variant: wg.Done() is not deferred and the error path returns
\* without it.
WgDoneOnlyOnSuccess(d) ==
    /\ pc[d] = "wgDone"
    /\ wg' = IF taskErr[d] = NoErr THEN wg - 1 ELSE wg
    /\ pc' = [pc EXCEPT ![d] = "done"]
    /\ UNCHANGED <<callerVars, instanceVars>>
    /\ UNCHANGED <<facetIdx, deploymentInfo, taskErr, calls, collectVars,
                   deploymentsInfo, mutex, waiterPc, doneChannel, errChannel,
                   firstErr>>

\* Line 38: the deferred wg.Done(), last statement of the goroutine.
WgDone(d) ==
    /\ pc[d] = "wgDone"
    /\ wg' = wg - 1
    /\ pc' = [pc EXCEPT ![d] = "done"]
    /\ UNCHANGED <<callerVars, instanceVars>>
    /\ UNCHANGED <<facetIdx, deploymentInfo, taskErr, calls, collectVars,
                   deploymentsInfo, mutex, waiterPc, doneChannel, errChannel,
                   firstErr>>

----------------------------------------------------------------------------
\* The goroutine of lines 51-54.

\* Line 52: wg.Wait() returns.
WaiterWait ==
    /\ waiterPc = "wait"
    /\ WgZero(wg)
    /\ waiterPc' = "close"
    /\ UNCHANGED <<callerVars, instanceVars>>
    /\ UNCHANGED <<collectVars, taskVars, deploymentsInfo, mutex, wg,
                   doneChannel, errChannel, firstErr>>

\* Line 53: close(doneChannel).
WaiterClose ==
    /\ waiterPc = "close"
    /\ doneChannel' = TRUE
    /\ waiterPc' = "exit"
    /\ UNCHANGED <<callerVars, instanceVars>>
    /\ UNCHANGED <<collectVars, taskVars, deploymentsInfo, mutex, wg,
                   errChannel, firstErr>>

----------------------------------------------------------------------------
\* fetchDeploymentInstances (lines 116-198), taken on its own.  Of a
\* director.VMInfo the model keeps ID, VMID and Index (*int: <<>> for nil,
\* <<n>> for a pointer to n); of an Instance it keeps ID and Index (a
\* string, as the sequence of its characters).  The other fields are
\* copied one to one.

VMIDs == {"", "vm-1"}

\* The indexes tried: the smallest ones and the ones next to MaxIndex.
IndexValues == {0, 1} \cup {n \in 0..MaxIndex : n >= MaxIndex - 2}

VMInfos ==
    [VMID : VMIDs, Index : {<<>>} \cup {<<n>> : n \in IndexValues}]

\* The payloads: sequences of at most MaxInstances entries; the ID of an
\* entry is its position.
InstancePayloads ==
    UNION {{[k \in 1..n |-> [ID |-> k, VMID |-> f[k].VMID, Index |-> f[k].Index]] :
                f \in [1..n -> VMInfos]} : n \in 0..MaxInstances}

Digits == <<"0", "1", "2", "3", "4", "5", "6", "7", "8", "9">>

\* strconv.Itoa.
RECURSIVE Itoa(_)
Itoa(n) ==
    IF n < 0 THEN <<"-">> \o Itoa(-n)
    ELSE IF n < 10 THEN <<Digits[n + 1]>>
    ELSE Itoa(n \div 10) \o <<Digits[(n % 10) + 1]>>

\* Faulty variant: no filter on the VM identity.
HasVMAlways(instance) == TRUE

\* Lines 126-128 negated: the entry is not skipped.
HasVM(instance) == instance.VMID # ""

\* Faulty variant: index 0 is taken for no index (Index as a plain int).
IndexStringZeroAbsent(index) ==
    IF index # <<>> /\ index[1] # 0 THEN Itoa(index[1]) ELSE <<>>

\* Lines 172-174: Index stays "" unless instance.Index != nil.
IndexString(index) == IF index # <<>> THEN Itoa(index[1]) ELSE <<>>

\* Lines 130-192: the Instance built from one entry.
MapInstance(instance) == [ID |-> instance.ID, Index |-> IndexString(instance.Index)]

\* fetchDeploymentInstances is entered: line 117.
InitInstances ==
    /\ instPc = "call"
    /\ instances = <<>>
    /\ instIdx = 1
    /\ deploymentInstances = <<>>

\* Lines 120-123, the call fails: return deploymentInstances, error.
InstanceInfosFail ==
    /\ instPc = "call"
    /\ instPc' = "failed"
    /\ UNCHANGED <<instances, instIdx, deploymentInstances, deploymentsVars>>

\* Lines 120-125, the call returns a payload.
InstanceInfosOk ==
    /\ instPc = "call"
    /\ \E payload \in InstancePayloads : instances' = payload
    /\ instPc' = "loop"
    /\ UNCHANGED <<instIdx, deploymentInstances, deploymentsVars>>

\* Lines 125-128: an entry without VM identity is skipped.
InstanceSkip ==
    /\ instPc = "loop"
    /\ instIdx <= Len(instances)
    /\ ~HasVM(instances[instIdx])
    /\ instIdx' = instIdx + 1
    /\ UNCHANGED <<instPc, instances, deploymentInstances, deploymentsVars>>

\* Lines 125-194: an entry with a VM identity is mapped and appended.
InstanceKeep ==
    /\ instPc = "loop"
    /\ instIdx <= Len(instances)
    /\ HasVM(instances[instIdx])
    /\ deploymentInstances' = Append(deploymentInstances, MapInstance(instances[instIdx]))
    /\ instIdx' = instIdx + 1
    /\ UNCHANGED <<instPc, instances, deploymentsVars>>

\* Line 197: return deploymentInstances, nil.
InstancesReturn ==
    /\ instPc = "loop"
    /\ instIdx > Len(instances)
    /\ instPc' = "returned"
    /\ UNCHANGED <<instances, instIdx, deploymentInstances, deploymentsVars>>

NextInstances ==
    \/ InstanceInfosFail
    \/ InstanceInfosOk
    \/ InstanceSkip
    \/ InstanceKeep
    \/ InstancesReturn

\* Deployments() is not running while fetchDeploymentInstances is examined.
InstancesInit == InitDeployments /\ InitInstances

InstancesSpec == InstancesInit /\ [][NextInstances]_vars

----------------------------------------------------------------------------
\* The caller: a second call of Deployments() on the same Fetcher.

\* All four remote calls of deployment d have returned a value.
AllOk(d) ==
    /\ Len(calls[d]) = NumFacets
    /\ \A k \in 1..NumFacets : calls[d][k] = <<FacetOrder[k], "ok">>

\* The elements of a slice, without their order.
Snapshots(s) == {s[k] : k \in 1..Len(s)}

\* Faulty variant: the slice outlives the call (a field of the Fetcher
\* instead of the local of line 24).
CallAgainKeepSlice ==
    /\ cycle = 1
    /\ collectPc = "returned"
    /\ retErr = NoErr
    /\ \A d \in 1..deployments : AllOk(d)
    /\ cycle' = 2
    /\ firstResult' = [snapshots |-> Snapshots(retInfo), count |-> Len(retInfo)]
    /\ collectPc' = "loop"
    /\ spawned' = 0
    /\ retInfo' = <<>>
    /\ pc' = [d \in Deployments |-> "notspawned"]
    /\ facetIdx' = [d \in Deployments |-> 1]
    /\ deploymentInfo' = [d \in Deployments |-> {}]
    /\ taskErr' = [d \in Deployments |-> NoErr]
    /\ calls' = [d \in Deployments |-> <<>>]
    /\ mutex' = 0
    /\ wg' = 0
    /\ waiterPc' = "notspawned"
    /\ doneChannel' = FALSE
    /\ errChannel' = <<>>
    /\ firstErr' = NoErr
    /\ UNCHANGED <<deployments, listErr, retErr, headerPtr, deploymentsInfo,
                   instanceVars>>

\* After a first call whose remote calls all succeeded and that returned a
\* nil error (all its goroutines have ended), Deployments() is called again
\* and GetDeployments returns the same handles: lines 24-34 create the slice, the mutex, the WaitGroup
\* and both channels anew; the Fetcher itself holds only the filter.
CallAgain ==
    /\ cycle = 1
    /\ collectPc = "returned"
    /\ retErr = NoErr
    /\ \A d \in 1..deployments : AllOk(d)
    /\ cycle' = 2
    /\ firstResult' = [snapshots |-> Snapshots(retInfo), count |-> Len(retInfo)]
    /\ collectPc' = "loop"
    /\ spawned' = 0
    /\ retInfo' = <<>>
    /\ pc' = [d \in Deployments |-> "notspawned"]
    /\ facetIdx' = [d \in Deployments |-> 1]
    /\ deploymentInfo' = [d \in Deployments |-> {}]
    /\ taskErr' = [d \in Deployments |-> NoErr]
    /\ calls' = [d \in Deployments |-> <<>>]
    /\ deploymentsInfo' = <<>>
    /\ mutex' = 0
    /\ wg' = 0
    /\ waiterPc' = "notspawned"
    /\ doneChannel' = FALSE
    /\ errChannel' = <<>>
    /\ firstErr' = NoErr
    /\ UNCHANGED <<deployments, listErr, retErr, headerPtr, instanceVars>>

----------------------------------------------------------------------------
CollectStep ==
    \/ GetDeploymentsFail
    \/ GetDeploymentsOk
    \/ SpawnTask
    \/ SpawnWaiter
    \/ SelectDone
    \/ SelectErr
    \/ ReturnErr

\* The steps of deployment d's goroutine when every remote call returns.
TaskStep(d) ==
    \/ CallOk(d)
    \/ CallFail(d)
    \/ SendErr(d)
    \/ Lock(d)
    \/ AppendResult(d)
    \/ Unlock(d)
    \/ WgDone(d)

WaiterStep ==
    \/ WaiterWait
    \/ WaiterClose

\* Every remote call returns, with a value or an error.
NextReturning ==
    \/ CollectStep
    \/ \E d \in Deployments : TaskStep(d)
    \/ WaiterStep

\* A remote call may also never return.
Next ==
    \/ NextReturning
    \/ \E d \in Deployments : CallHang(d)

Spec == Init /\ [][Next]_vars

\* Remote calls return and the Go scheduler runs every goroutine that can
\* take a step.
Fairness ==
    /\ WF_vars(CollectStep)
    /\ WF_vars(WaiterStep)
    /\ \A d \in Deployments : WF_vars(TaskStep(d))

LiveSpec == Init /\ [][NextReturning]_vars /\ Fairness

\* Two calls in a row.
NextTwice ==
    \/ Next
    \/ CallAgain

TwiceSpec == Init /\ [][NextTwice]_vars

----------------------------------------------------------------------------
TypeOK ==
    /\ collectPc \in {"getDeployments", "loop", "select", "return", "returned"}
    /\ headerPtr \in 0..MaxDeployments
    /\ deployments \in 0..MaxDeployments
    /\ listErr \in {NoErr, ListErr}
    /\ spawned \in 0..deployments
    /\ pc \in [Deployments -> {"notspawned", "call", "hung", "send", "lock",
                                "append", "unlock", "wgDone", "done"}]
    /\ facetIdx \in [Deployments -> 1..NumFacets]
    /\ deploymentInfo \in [Deployments -> SUBSET Facets]
    /\ mutex \in 0..MaxDeployments
    /\ wg \in 0..MaxDeployments
    /\ waiterPc \in {"notspawned", "wait", "close", "exit"}
    /\ doneChannel \in BOOLEAN
    /\ Len(errChannel) <= ErrChannelCap
    /\ cycle \in {1, 2}

----------------------------------------------------------------------------
\* Vocabulary of the properties.

Handles == 1..deployments

Returned == collectPc = "returned"

\* Deployment d's goroutine has seen a remote call fail / hang.
Failed(d) == \E k \in 1..Len(calls[d]) : calls[d][k][2] = "fail"

Hung(d) == pc[d] = "hung"

\* The listing succeeded and returned no handle.
ListedEmpty == collectPc # "getDeployments" /\ listErr = NoErr /\ deployments = 0

----------------------------------------------------------------------------
\* C1: if a remote call of some deployment failed, Deployments() returns a
\* non-nil error, in every interleaving (also when doneChannel and
\* errChannel are both ready at the select).
C1_FailureFailsCollect ==
    (Returned /\ \E d \in Handles : Failed(d)) => retErr # NoErr

\* C2: with a non-empty handle set whose remote calls all succeed,
\* Deployments() returns a nil error and exactly one DeploymentInfo per
\* handle.
C2_AllSucceedReturnsAll ==
    (Returned /\ deployments > 0 /\ \A d \in Handles : AllOk(d)) =>
        /\ retErr = NoErr
        /\ Len(retInfo) = deployments
        /\ \A d \in Handles :
              Cardinality({k \in 1..Len(retInfo) : retInfo[k].name = d}) = 1

C2_Witness ==
    /\ Returned
    /\ deployments >= 2
    /\ \A d \in Handles : AllOk(d)
    /\ retErr = NoErr
    /\ Len(retInfo) = deployments

\* C3: when every remote call returns, every goroutine started for a
\* deployment eventually terminates, whatever the number of failing
\* deployments (a later failure is dropped without blocking).
C3_EveryTaskTerminates ==
    \A d \in Deployments : (pc[d] # "notspawned") ~> (pc[d] = "done")

\* C4: when every remote call returns, Deployments() eventually returns.
C4_CollectReturns == <>Returned

C4_Witness ==
    /\ Returned
    /\ Cardinality({d \in Handles : Failed(d)}) >= 2
    /\ \E d \in Handles : AllOk(d)

\* C5: once Deployments() has returned, no goroutine writes the shared
\* slice any more: no step after the return appends to deploymentsInfo.
C5_NoAppendAfterReturn ==
    [][Returned => deploymentsInfo' = deploymentsInfo]_vars

\* C6: the error returned from the select is the first one written to
\* errChannel; the channel holds at most one error, and a buffered error is
\* never replaced by another one.
C6_FirstErrorWins ==
    /\ [](Len(errChannel) <= 1)
    /\ []((Returned /\ retErr.kind = "facet") => retErr = firstErr)
    /\ [][errChannel # <<>> => errChannel' \in {errChannel, <<>>}]_vars

C6_Witness ==
    /\ Returned
    /\ retErr.kind = "facet"
    /\ retErr = firstErr
    /\ errChannel # <<>>
    /\ errChannel[1] # retErr

\* C7: a returned facet error names one of the input deployments and the
\* first facet, in the order Errands, Instances, Releases, Stemcells, whose
\* remote call failed for that deployment.
C7_ErrorNamesFailedCall ==
    (Returned /\ retErr.kind = "facet") =>
        /\ retErr.dep \in Handles
        /\ \E k \in 1..NumFacets :
              /\ retErr.facet = FacetOrder[k]
              /\ Len(calls[retErr.dep]) = k
              /\ calls[retErr.dep][k] = <<FacetOrder[k], "fail">>
              /\ \A j \in 1..(k - 1) : calls[retErr.dep][j] = <<FacetOrder[j], "ok">>

C7_Witness ==
    /\ Returned
    /\ deployments >= 2
    /\ retErr.kind = "facet"
    /\ retErr.facet = "Instances"
    /\ \A d \in Handles \ {retErr.dep} : ~Failed(d)

\* C8: for an empty handle set Deployments() starts no deployment
\* goroutine, returns an empty slice and a nil error, and does return.
C8_EmptyHandleSet ==
    /\ [](ListedEmpty =>
            /\ \A d \in Deployments : pc[d] = "notspawned" /\ calls[d] = <<>>
            /\ Returned => (retInfo = <<>> /\ retErr = NoErr))
    /\ (ListedEmpty ~> Returned)

C8_Witness == ListedEmpty /\ Returned /\ retInfo = <<>> /\ retErr = NoErr

\* C9: when GetDeployments fails, Deployments() returns that error at once
\* with an empty slice; no goroutine is started and no remote call is made.
C9_ListingFailure ==
    listErr # NoErr =>
        /\ Returned
        /\ retErr = listErr
        /\ retInfo = <<>>
        /\ spawned = 0
        /\ waiterPc = "notspawned"
        /\ \A d \in Deployments : pc[d] = "notspawned" /\ calls[d] = <<>>

C9_Witness == listErr = ListErr /\ Returned /\ retErr = ListErr

\* C10 as claimed: while a remote call of some deployment never returns,
\* Deployments() does not return, whatever the other goroutines do.
C10_HangBlocksCollect ==
    [][((\E d \in Handles : Hung(d)) /\ ~Returned) => ~Returned']_vars

\* C10 as amended: a goroutine whose remote call never returns never
\* finishes, doneChannel is never closed and Deployments() never returns a
\* nil error; it returns only with the error of another deployment whose
\* remote call failed, and not at all when no call failed.
C10_HangBlocksCompletion ==
    /\ []((\E d \in Handles : Hung(d)) =>
            /\ wg > 0
            /\ ~doneChannel
            /\ Returned => (retErr.kind = "facet" /\ Failed(retErr.dep))
            /\ (\A d \in Handles : ~Failed(d)) => ~Returned)
    /\ [][\A d \in Deployments : Hung(d) => pc'[d] = "hung"]_vars

C10_Witness ==
    /\ deployments >= 2
    /\ \E d \in Handles :
          /\ Hung(d)
          /\ \A e \in Handles \ {d} : pc[e] = "done" /\ AllOk(e)
    /\ collectPc = "select"
    /\ waiterPc = "wait"

\* C11: two calls of Deployments() with the same handles, all remote calls
\* succeeding in both, return the same DeploymentInfo values, order aside
\* (same elements, same number of them), in every interleaving.
C11_SecondCallSameSnapshots ==
    (cycle = 2 /\ Returned /\ \A d \in Handles : AllOk(d)) =>
        /\ retErr = NoErr
        /\ Snapshots(retInfo) = firstResult.snapshots
        /\ Len(retInfo) = firstResult.count

C11_Witness ==
    /\ cycle = 2
    /\ Returned
    /\ deployments >= 2
    /\ \A d \in Handles : AllOk(d)
    /\ firstResult.count = deployments
    /\ Snapshots(retInfo) = firstResult.snapshots

----------------------------------------------------------------------------
\* Vocabulary of the properties of fetchDeploymentInstances.

\* The payload entry an Instance was built from.
SourceOf(inst) == instances[inst.ID]

DigitValue(c) == CHOOSE v \in 0..9 : Digits[v + 1] = c

RECURSIVE DecimalValue(_)
DecimalValue(str) ==
    IF str = <<>> THEN 0
    ELSE 10 * DecimalValue(SubSeq(str, 1, Len(str) - 1)) + DigitValue(str[Len(str)])

\* str is the decimal numeral of the natural number n: digits only, no
\* leading zero, value n.
IsDecimalOf(str, n) ==
    /\ str # <<>>
    /\ \A k \in 1..Len(str) : \E v \in 1..10 : Digits[v] = str[k]
    /\ (Len(str) > 1 => str[1] # "0")
    /\ DecimalValue(str) = n

\* C12: the Instance sequence never holds an entry whose VM identity is
\* empty, and on return it holds exactly the payload entries with a
\* non-empty VM identity, once each, in payload order.
C12_OnlyInstancesWithVM ==
    /\ \A k \in 1..Len(deploymentInstances) :
          /\ deploymentInstances[k].ID \in 1..Len(instances)
          /\ SourceOf(deploymentInstances[k]).VMID # ""
    /\ \A j, k \in 1..Len(deploymentInstances) :
          j < k => deploymentInstances[j].ID < deploymentInstances[k].ID
    /\ instPc = "returned" =>
          \A i \in 1..Len(instances) :
              instances[i].VMID # "" =>
                  \E k \in 1..Len(deploymentInstances) : deploymentInstances[k].ID = i

C12_Witness ==
    /\ instPc = "returned"
    /\ Len(instances) = 3
    /\ instances[1].VMID # ""
    /\ instances[2].VMID = ""
    /\ instances[3].VMID # ""
    /\ Len(deploymentInstances) = 2

\* C13: the Index of a kept Instance is the empty string when the payload
\* entry has no index, and the decimal numeral of the index otherwise; the
\* numeral of index 0 is "0", not the empty string.
C13_IndexString ==
    \A k \in 1..Len(deploymentInstances) :
        LET index == SourceOf(deploymentInstances[k]).Index
            str == deploymentInstances[k].Index
        IN  /\ index = <<>> => str = <<>>
            /\ index # <<>> => IsDecimalOf(str, index[1])
            /\ index = <<0>> => str = <<"0">>

C13_Witness ==
    /\ instPc = "returned"
    /\ \E i, j, k \in 1..Len(deploymentInstances) :
          /\ SourceOf(deploymentInstances[i]).Index = <<>>
          /\ deploymentInstances[i].Index = <<>>
          /\ SourceOf(deploymentInstances[j]).Index = <<0>>
          /\ deploymentInstances[j].Index = <<"0">>
          /\ SourceOf(deploymentInstances[k]).Index = <<10>>
          /\ deploymentInstances[k].Index = <<"1", "0">>

----------------------------------------------------------------------------
\* Properties of the synchronisation in Deployments().

\* Deployment d's goroutine is at or past its append.
InCriticalSection(d) == pc[d] \in {"append", "unlock"}

\* Deployment d's goroutine has executed line 46.
Appended(d) == AllOk(d) /\ pc[d] \in {"unlock", "wgDone", "done"}

FailedHandles == {d \in Handles : Failed(d)}

\* Every goroutine of the call has ended and doneChannel is closed.
Settled ==
    /\ waiterPc = "exit"
    /\ doneChannel
    /\ \A d \in Handles : pc[d] = "done"

\* C14: doneChannel is closed only after every deployment has a goroutine
\* and every one of them has run its wg.Done (after success or failure);
\* it is closed once, by line 53, and stays closed.
C14_DoneAfterAllTasks ==
    /\ []((doneChannel \/ waiterPc \in {"close", "exit"}) =>
            /\ spawned = deployments
            /\ wg = 0
            /\ \A d \in Handles : pc[d] = "done")
    /\ [][doneChannel' # doneChannel =>
            (~doneChannel /\ waiterPc = "close" /\ waiterPc' = "exit")]_vars
    /\ [][waiterPc = "exit" => waiterPc' = "exit"]_vars

C14_Witness ==
    /\ doneChannel
    /\ deployments >= 2
    /\ \E d \in Handles : Failed(d) /\ pc[d] = "done"
    /\ \E d \in Handles : AllOk(d) /\ pc[d] = "done"

\* C15: every DeploymentInfo in the shared slice, and in any slice that
\* Deployments() returns (with or without an error), is the complete one of
\* a deployment whose four remote calls succeeded.
C15_OnlyCompleteSnapshots ==
    \A s \in Snapshots(deploymentsInfo) \cup Snapshots(retInfo) :
        /\ s.name \in Handles
        /\ AllOk(s.name)
        /\ s.facets = Facets

\* C16: a goroutine issues its remote calls in the order Errands,
\* Instances, Releases, Stemcells, each at most once, and none after one
\* that failed.
C16_FacetCallsInOrder ==
    \A d \in Deployments :
        /\ Len(calls[d]) <= NumFacets
        /\ \A k \in 1..Len(calls[d]) : calls[d][k][1] = FacetOrder[k]
        /\ \A k \in 1..(Len(calls[d]) - 1) : calls[d][k][2] = "ok"

C16_Witness ==
    /\ \E d \in Handles :
          /\ Len(calls[d]) = 3
          /\ calls[d][3] = <<"Releases", "fail">>
          /\ pc[d] = "done"
    /\ \E d \in Handles : AllOk(d) /\ pc[d] = "done"

\* C17: at most one goroutine is between mutex.Lock and mutex.Unlock, and
\* the shared slice has one element per goroutine that executed its append.
C17_AppendsSerialised ==
    /\ Cardinality({d \in Deployments : InCriticalSection(d)}) <= 1
    /\ \A d \in Deployments : InCriticalSection(d) => mutex = d
    /\ Len(deploymentsInfo) = Cardinality({d \in Deployments : Appended(d)})

C17_Witness ==
    /\ \E d, e \in Handles : pc[d] = "append" /\ pc[e] = "lock"
    /\ Len(deploymentsInfo) >= 1

\* C18: when Deployments() returns a nil error after the select, every
\* goroutine has ended (its append and wg.Done are over), doneChannel is
\* closed and the mutex is free, so the read of the slice at line 62
\* overlaps no append and returns the slice as it is.
C18_NilReturnAfterAllAppends ==
    (Returned /\ retErr = NoErr /\ listErr = NoErr) =>
        /\ doneChannel
        /\ mutex = 0
        /\ \A d \in Handles : pc[d] = "done"
        /\ retInfo = deploymentsInfo

C18_Witness ==
    /\ Returned
    /\ retErr = NoErr
    /\ deployments >= 2
    /\ Len(retInfo) = deployments
    /\ mutex = 0
    /\ doneChannel

\* C19: when two or more deployments have failed, doneChannel is not closed
\* before Deployments() has received an error at line 58 (retErr is that
\* error), and Deployments() returns a non-nil error.
C19_TwoFailuresFailCollect ==
    Cardinality(FailedHandles) >= 2 =>
        /\ doneChannel => retErr.kind = "facet"
        /\ Returned => retErr # NoErr

C19_Witness ==
    /\ Cardinality(FailedHandles) >= 2
    /\ doneChannel
    /\ Returned
    /\ retErr.kind = "facet"
    /\ \A d \in Handles : pc[d] = "done"

\* C20: when every remote call returns and at most two deployments fail,
\* every goroutine of the call eventually ends and doneChannel is eventually
\* closed, also after Deployments() returned an error.
C20_AtMostTwoFailuresSettle ==
    <>(Cardinality(FailedHandles) > 2 \/ listErr # NoErr \/ Settled)

C20_Witness ==
    /\ Settled
    /\ Cardinality(FailedHandles) = 2
    /\ Returned
    /\ retErr.kind = "facet"
    /\ errChannel # <<>>

====
